---- MODULE Spec2Model ----
(***************************************************************************)
(* Mutual-consent ledger of accounts/views.py: Friendship,                 *)
(* FriendTransaction, TransactionDeleteRequest and HistoryResetRequest     *)
(* rows and the HTTP handlers that create and resolve them.                *)
(*                                                                         *)
(* Every handler is one atomic step.  A handler that raises does so before *)
(* its first write, so a refused call is no step; the response a call      *)
(* would get in the current state is given by the handler's ...Response    *)
(* operator, and the handler's action is enabled when that response is OK. *)
(***************************************************************************)
EXTENDS Integers, FiniteSets, Sequences, TLC

\* ---------------------------------------------------------------- bounds
\* rows inserted over a run, all four tables together
MaxRows == 4

\* ------------------------------------------------------- users and inputs
Users == {"alice", "bob", "carol"}
\* usernames a request may carry: the registered ones, one that resolves to
\* no user, and the empty string (field absent)
Usernames == Users \cup {"nobody", ""}
Null == "null"
Amounts == {0, 5}

PENDING == "pending"
ACCEPTED == "accepted"
REJECTED == "rejected"
APPROVED == "approved"

\* values of the `action' field of a PUT/PATCH body; each serializer accepts
\* two of them and refuses the third as an invalid choice
ActionInputs == {"accept", "reject", "approve"}
\* primary keys a URL may carry
Pks == 1..MaxRows
\* transaction_id values a request body may carry; 0 stands for a missing one
TransactionIds == 0..MaxRows

\* requests that may be in progress at the same time
MaxWorkers == 2
Workers == 1..MaxWorkers

\* inflight[w] is the send request worker w has checked but not yet inserted,
\* or Idle; calls[w] is the act call or request call worker w is executing,
\* with the model instance it has read, or NoCall
VARIABLES friendships, transactions, deleteRequests, resetRequests,
          nextFriendship, nextTransaction, nextDelete, nextReset, inflight,
          calls

vars == <<friendships, transactions, deleteRequests, resetRequests,
          nextFriendship, nextTransaction, nextDelete, nextReset, inflight,
          calls>>

Idle == [requester |-> Null, receiver |-> Null]

\* the state of a worker between two requests
NoInstance == [id |-> 0]
NoCall == [view |-> Null, pc |-> "idle", user |-> Null,
           instance |-> NoInstance, new_status |-> Null, res |-> "OK",
           count |-> 0]

\* rows inserted so far
Inserted == (nextFriendship - 1) + (nextTransaction - 1)
            + (nextDelete - 1) + (nextReset - 1)

\* ------------------------------------------------------------- responses
\* DRF outcomes: 2xx, NotFound (404), ValidationError (400), and the
\* database's IntegrityError, which no handler catches (500)
OK == "OK"
NotFound == "NotFound"
ValidationError == "ValidationError"
IntegrityError == "IntegrityError"

Raise(res, msg) == [res |-> res, msg |-> msg, count |-> 0]
Respond(msg, count) == [res |-> OK, msg |-> msg, count |-> count]

\* ------------------------------------------------------------ serializers
FriendshipStatusUpdateSerializer(action) ==
    IF action = "accept" THEN ACCEPTED
    ELSE IF action = "reject" THEN REJECTED
    ELSE Null

TransactionStatusUpdateSerializer(action) ==
    IF action = "accept" THEN ACCEPTED
    ELSE IF action = "reject" THEN REJECTED
    ELSE Null

DeleteRequestActionSerializer(action) ==
    IF action = "approve" THEN APPROVED
    ELSE IF action = "reject" THEN REJECTED
    ELSE Null

\* mutant: a reject is stored as an approval
ResetRequestActionSerializer_RejectApproves(action) ==
    IF action = "approve" THEN APPROVED
    ELSE IF action = "reject" THEN APPROVED
    ELSE Null

ResetRequestActionSerializer(action) ==
    IF action = "approve" THEN APPROVED
    ELSE IF action = "reject" THEN REJECTED
    ELSE Null

\* ---------------------------------------------------------------- queries
\* QuerySet.first() under Meta.ordering = ['-created_at']: the newest row
First(S) == CHOOSE r \in S : \A o \in S : o.id <= r.id

\* get_object(): the rows of the view's queryset whose pk is the URL's pk
get_object(queryset, pk) == {r \in queryset : r.id = pk}

Init ==
    /\ friendships = {}
    /\ transactions = {}
    /\ deleteRequests = {}
    /\ resetRequests = {}
    /\ nextFriendship = 1
    /\ nextTransaction = 1
    /\ nextDelete = 1
    /\ nextReset = 1
    /\ inflight = [w \in Workers |-> Idle]
    /\ calls = [w \in Workers |-> NoCall]

\* ------------------------------------------------ FriendRequestSendView
\* mutant: the lookup skips rows that are already accepted
ExistingFriendRequests_PendingOrRejected(requester, receiver) ==
    {f \in friendships :
        /\ \/ (f.requester = requester /\ f.receiver = receiver)
           \/ (f.requester = receiver /\ f.receiver = requester)
        /\ f.status # ACCEPTED}

\* mutant: the lookup only sees requests sent in the caller's direction
ExistingFriendRequests_Directed(requester, receiver) ==
    {f \in friendships : f.requester = requester /\ f.receiver = receiver}

\* Friendship.objects.filter(Q(requester=a, receiver=b) | Q(requester=b, receiver=a))
ExistingFriendRequests(requester, receiver) ==
    {f \in friendships : \/ (f.requester = requester /\ f.receiver = receiver)
                         \/ (f.requester = receiver /\ f.receiver = requester)}

\* mutant: a rejected request does not block a new one
FriendRequestSendResponse_ResendAfterReject(requester, receiver_username) ==
    LET existing == ExistingFriendRequests(requester, receiver_username)
    IN  IF receiver_username = ""
        THEN Raise(ValidationError, "username must be provided")
        ELSE IF receiver_username \notin Users
        THEN Raise(NotFound, "user does not exist")
        ELSE IF requester = receiver_username
        THEN Raise(ValidationError, "cannot send to yourself")
        ELSE IF existing # {}
        THEN LET existing_request == First(existing)
             IN  IF existing_request.status = ACCEPTED
                 THEN Raise(ValidationError, "already friends")
                 ELSE IF existing_request.status = PENDING
                 THEN IF existing_request.requester = receiver_username
                      THEN Raise(ValidationError, "they already sent you a request")
                      ELSE Raise(ValidationError, "already sent")
                 ELSE Respond("created", 0)
        ELSE Respond("created", 0)

FriendRequestSendResponse(requester, receiver_username) ==
    LET existing == ExistingFriendRequests(requester, receiver_username)
    IN  IF receiver_username = ""
        THEN Raise(ValidationError, "username must be provided")
        ELSE IF receiver_username \notin Users
        THEN Raise(NotFound, "user does not exist")
        ELSE IF requester = receiver_username
        THEN Raise(ValidationError, "cannot send to yourself")
        ELSE IF existing # {}
        THEN LET existing_request == First(existing)
             IN  IF existing_request.status = ACCEPTED
                 THEN Raise(ValidationError, "already friends")
                 ELSE IF existing_request.status = PENDING
                 THEN IF existing_request.requester = receiver_username
                      THEN Raise(ValidationError, "they already sent you a request")
                      ELSE Raise(ValidationError, "already sent")
                 ELSE Raise(ValidationError, "previous request was rejected")
        ELSE Respond("created", 0)

FriendRequestSend(requester, receiver_username) ==
    /\ FriendRequestSendResponse(requester, receiver_username).res = OK
    /\ Inserted < MaxRows
    /\ friendships' = friendships \cup
            {[id |-> nextFriendship, requester |-> requester,
              receiver |-> receiver_username, status |-> PENDING]}
    /\ nextFriendship' = nextFriendship + 1
    /\ UNCHANGED <<transactions, deleteRequests, resetRequests,
                   nextTransaction, nextDelete, nextReset, inflight, calls>>

\* --------------------------------------------- PendingFriendRequestsView
PendingFriendRequests(user) ==
    {f \in friendships : f.receiver = user /\ f.status = PENDING}

\* ----------------------------------------------- FriendRequestActionView
\* mutant: the queryset is not restricted to the receiver
FriendRequestActionQueryset_AnyUser(user) ==
    {f \in friendships : f.status = PENDING}

FriendRequestActionQueryset(user) ==
    {f \in friendships : f.receiver = user /\ f.status = PENDING}

FriendRequestActionResponse(user, pk, action) ==
    LET found == get_object(FriendRequestActionQueryset(user), pk)
        new_status == FriendshipStatusUpdateSerializer(action)
    IN  IF found = {}
        THEN Raise(NotFound, "not found")
        ELSE IF new_status = Null
        THEN Raise(ValidationError, "invalid choice")
        ELSE IF First(found).status = PENDING
        THEN Respond(new_status, 0)
        ELSE Raise(ValidationError, "not pending")

\* mutant: the receiver can act on a friendship of any status
FriendRequestAction_AnyStatus(user, pk, action) ==
    /\ FriendshipStatusUpdateSerializer(action) # Null
    /\ \E friendship \in {f \in friendships : f.receiver = user /\ f.id = pk} :
            friendships' = (friendships \ {friendship}) \cup
                {[friendship EXCEPT
                    !.status = FriendshipStatusUpdateSerializer(action)]}
    /\ UNCHANGED <<transactions, deleteRequests, resetRequests,
                   nextFriendship, nextTransaction, nextDelete, nextReset, inflight, calls>>

FriendRequestAction(user, pk, action) ==
    /\ FriendRequestActionResponse(user, pk, action).res = OK
    /\ LET friendship == First(get_object(FriendRequestActionQueryset(user), pk))
           new_status == FriendshipStatusUpdateSerializer(action)
       IN  friendships' = (friendships \ {friendship}) \cup
                {[friendship EXCEPT !.status = new_status]}
    /\ UNCHANGED <<transactions, deleteRequests, resetRequests,
                   nextFriendship, nextTransaction, nextDelete, nextReset, inflight, calls>>

\* -------------------------------------------------------- FriendListView
\* mutant: only the friendships the user requested are listed
FriendList_RequesterOnly(user) ==
    {f.receiver : f \in {g \in friendships :
                            g.requester = user /\ g.status = ACCEPTED}}

FriendList(user) ==
    {IF f.requester = user THEN f.receiver ELSE f.requester :
        f \in {g \in friendships :
                 /\ (g.requester = user \/ g.receiver = user)
                 /\ g.status = ACCEPTED}}

\* ------------------------------------------------- CreateTransactionView
\* mutant: the gate does not look at the friendship's status
are_friends_AnyStatus(a, b) ==
    \E f \in friendships :
        \/ (f.requester = a /\ f.receiver = b)
        \/ (f.requester = b /\ f.receiver = a)

\* the friendship gate of CreateTransactionView and RequestHistoryResetView
are_friends(a, b) ==
    \E f \in friendships :
        \/ (f.requester = a /\ f.receiver = b /\ f.status = ACCEPTED)
        \/ (f.requester = b /\ f.receiver = a /\ f.status = ACCEPTED)

\* mutant: the zero-amount check is missing
CreateTransactionResponse_NoZeroCheck(initiator, friend_username, amount) ==
    IF friend_username = ""
    THEN Raise(ValidationError, "username must be provided")
    ELSE IF friend_username \notin Users
    THEN Raise(NotFound, "user does not exist")
    ELSE IF initiator = friend_username
    THEN Raise(ValidationError, "transaction with yourself")
    ELSE IF ~are_friends(initiator, friend_username)
    THEN Raise(ValidationError, "not friends")
    ELSE Respond("created", 0)

\* mutant: the username is resolved before the amount is checked
CreateTransactionResponse_LookupFirst(initiator, friend_username, amount) ==
    IF friend_username = ""
    THEN Raise(ValidationError, "username must be provided")
    ELSE IF friend_username \notin Users
    THEN Raise(NotFound, "user does not exist")
    ELSE IF amount = 0
    THEN Raise(ValidationError, "amount cannot be zero")
    ELSE IF initiator = friend_username
    THEN Raise(ValidationError, "transaction with yourself")
    ELSE IF ~are_friends(initiator, friend_username)
    THEN Raise(ValidationError, "not friends")
    ELSE Respond("created", 0)

CreateTransactionResponse(initiator, friend_username, amount) ==
    IF friend_username = ""
    THEN Raise(ValidationError, "username must be provided")
    ELSE IF amount = 0
    THEN Raise(ValidationError, "amount cannot be zero")
    ELSE IF friend_username \notin Users
    THEN Raise(NotFound, "user does not exist")
    ELSE IF initiator = friend_username
    THEN Raise(ValidationError, "transaction with yourself")
    ELSE IF ~are_friends(initiator, friend_username)
    THEN Raise(ValidationError, "not friends")
    ELSE Respond("created", 0)

CreateTransaction(initiator, friend_username, amount) ==
    /\ CreateTransactionResponse(initiator, friend_username, amount).res = OK
    /\ Inserted < MaxRows
    /\ transactions' = transactions \cup
            {[id |-> nextTransaction, initiator |-> initiator,
              friend |-> friend_username, amount |-> amount,
              status |-> PENDING, action_taken_by |-> Null]}
    /\ nextTransaction' = nextTransaction + 1
    /\ UNCHANGED <<friendships, deleteRequests, resetRequests,
                   nextFriendship, nextDelete, nextReset, inflight, calls>>

\* ----------------------------------------------- PendingTransactionsView
PendingTransactions(user) ==
    {t \in transactions : t.friend = user /\ t.status = PENDING}

\* ------------------------------------------- SentPendingTransactionsView
SentPendingTransactions(user) ==
    {t \in transactions : t.initiator = user /\ t.status = PENDING}

\* ------------------------------------------------- TransactionActionView
\* mutant: either party of the transaction may act on it
TransactionActionQueryset_EitherParty(user) ==
    {t \in transactions :
        (t.friend = user \/ t.initiator = user) /\ t.status = PENDING}

TransactionActionQueryset(user) ==
    {t \in transactions : t.friend = user /\ t.status = PENDING}

TransactionActionResponse(user, pk, action) ==
    LET found == get_object(TransactionActionQueryset(user), pk)
        new_status == TransactionStatusUpdateSerializer(action)
    IN  IF found = {}
        THEN Raise(NotFound, "not found")
        ELSE IF new_status = Null
        THEN Raise(ValidationError, "invalid choice")
        ELSE IF First(found).status = PENDING
        THEN Respond(new_status, 0)
        ELSE Raise(ValidationError, "not pending")

\* mutant: the acting user is not recorded
TransactionAction_NoStamp(user, pk, action) ==
    /\ TransactionActionResponse(user, pk, action).res = OK
    /\ LET transaction == First(get_object(TransactionActionQueryset(user), pk))
           new_status == TransactionStatusUpdateSerializer(action)
       IN  transactions' = (transactions \ {transaction}) \cup
                {[transaction EXCEPT !.status = new_status]}
    /\ UNCHANGED <<friendships, deleteRequests, resetRequests,
                   nextFriendship, nextTransaction, nextDelete, nextReset, inflight, calls>>

TransactionAction(user, pk, action) ==
    /\ TransactionActionResponse(user, pk, action).res = OK
    /\ LET transaction == First(get_object(TransactionActionQueryset(user), pk))
           new_status == TransactionStatusUpdateSerializer(action)
       IN  transactions' = (transactions \ {transaction}) \cup
                {[transaction EXCEPT !.status = new_status,
                                     !.action_taken_by = user]}
    /\ UNCHANGED <<friendships, deleteRequests, resetRequests,
                   nextFriendship, nextTransaction, nextDelete, nextReset, inflight, calls>>

\* ------------------------------------------------ TransactionHistoryView
\* mutant: only accepted transactions are returned
TransactionHistoryRows_AcceptedOnly(user, friend) ==
    {t \in transactions :
        /\ \/ (t.initiator = user /\ t.friend = friend)
           \/ (t.initiator = friend /\ t.friend = user)
        /\ t.status = ACCEPTED}

\* the rows between the two users, both directions, every status
TransactionHistoryRows(user, friend) ==
    {t \in transactions : \/ (t.initiator = user /\ t.friend = friend)
                          \/ (t.initiator = friend /\ t.friend = user)}

RECURSIVE NewestFirst(_)
\* order_by('-created_at'): created_at is set on insert and follows the pk
NewestFirst(S) ==
    IF S = {} THEN <<>>
    ELSE LET r == First(S) IN <<r>> \o NewestFirst(S \ {r})

\* the list the view returns (empty when the view raises)
TransactionHistory(user, friend_username) ==
    IF friend_username \notin Users THEN <<>>
    ELSE NewestFirst(TransactionHistoryRows(user, friend_username))

TransactionHistoryResponse(user, friend_username) ==
    IF friend_username = ""
    THEN Raise(ValidationError, "friend must be provided")
    ELSE IF friend_username \notin Users
    THEN Raise(NotFound, "friend not found")
    ELSE Respond("list", Len(TransactionHistory(user, friend_username)))

\* ------------------------------------------ RequestTransactionDeleteView
\* the INSERT of a TransactionDeleteRequest row: Meta.unique_together =
\* ['transaction', 'requester'] is enforced by the database on every row,
\* whatever its status
DeleteRequestInsertAllowed(transaction_id, requester) ==
    ~\E d \in deleteRequests :
        d.transaction = transaction_id /\ d.requester = requester

\* mutant: the lookup filters on the wrong status
ExistingDeleteRequests_Approved(transaction_id) ==
    {d \in deleteRequests :
        d.transaction = transaction_id /\ d.status = APPROVED}

\* TransactionDeleteRequest.objects.filter(transaction=..., status=PENDING)
ExistingDeleteRequests(transaction_id) ==
    {d \in deleteRequests :
        d.transaction = transaction_id /\ d.status = PENDING}

\* mutant: only an accepted transaction can be asked to be deleted
RequestTransactionDeleteResponse_AcceptedOnly(requester, transaction_id) ==
    LET found == {t \in transactions : t.id = transaction_id}
    IN  IF transaction_id = 0
        THEN Raise(ValidationError, "transaction id must be provided")
        ELSE IF found = {}
        THEN Raise(NotFound, "transaction not found")
        ELSE LET transaction == First(found)
             IN  IF requester \notin {transaction.initiator, transaction.friend}
                 THEN Raise(ValidationError, "not part of this transaction")
                 ELSE IF transaction.status # ACCEPTED
                 THEN Raise(ValidationError, "transaction is not accepted")
                 ELSE IF ExistingDeleteRequests(transaction.id) # {}
                 THEN Raise(ValidationError, "delete request already exists")
                 ELSE IF ~DeleteRequestInsertAllowed(transaction.id, requester)
                 THEN Raise(IntegrityError, "unique_together")
                 ELSE Respond("created", 0)

\* mutant: the requester is not checked against the transaction's parties
RequestTransactionDeleteResponse_NoPartyCheck(requester, transaction_id) ==
    LET found == {t \in transactions : t.id = transaction_id}
    IN  IF transaction_id = 0
        THEN Raise(ValidationError, "transaction id must be provided")
        ELSE IF found = {}
        THEN Raise(NotFound, "transaction not found")
        ELSE LET transaction == First(found)
             IN  IF ExistingDeleteRequests(transaction.id) # {}
                 THEN Raise(ValidationError, "delete request already exists")
                 ELSE IF ~DeleteRequestInsertAllowed(transaction.id, requester)
                 THEN Raise(IntegrityError, "unique_together")
                 ELSE Respond("created", 0)

RequestTransactionDeleteResponse(requester, transaction_id) ==
    LET found == {t \in transactions : t.id = transaction_id}
    IN  IF transaction_id = 0
        THEN Raise(ValidationError, "transaction id must be provided")
        ELSE IF found = {}
        THEN Raise(NotFound, "transaction not found")
        ELSE LET transaction == First(found)
             IN  IF requester \notin {transaction.initiator, transaction.friend}
                 THEN Raise(ValidationError, "not part of this transaction")
                 ELSE IF ExistingDeleteRequests(transaction.id) # {}
                 THEN Raise(ValidationError, "delete request already exists")
                 ELSE IF ~DeleteRequestInsertAllowed(transaction.id, requester)
                 THEN Raise(IntegrityError, "unique_together")
                 ELSE Respond("created", 0)

RequestTransactionDelete(requester, transaction_id) ==
    /\ RequestTransactionDeleteResponse(requester, transaction_id).res = OK
    /\ Inserted < MaxRows
    /\ deleteRequests' = deleteRequests \cup
            {[id |-> nextDelete, transaction |-> transaction_id,
              requester |-> requester, status |-> PENDING]}
    /\ nextDelete' = nextDelete + 1
    /\ UNCHANGED <<friendships, transactions, resetRequests,
                   nextFriendship, nextTransaction, nextReset, inflight, calls>>

\* --------------------------------------------- PendingDeleteRequestsView
\* mutant: the list also shows the user's own requests
PendingDeleteRequests_IncludingOwn(user) ==
    LET user_transactions ==
            {t.id : t \in {x \in transactions :
                              x.initiator = user \/ x.friend = user}}
    IN  {d \in deleteRequests : /\ d.transaction \in user_transactions
                                /\ d.status = PENDING}

PendingDeleteRequests(user) ==
    LET user_transactions ==
            {t.id : t \in {x \in transactions :
                              x.initiator = user \/ x.friend = user}}
    IN  {d \in deleteRequests : /\ d.transaction \in user_transactions
                                /\ d.status = PENDING
                                /\ d.requester # user}

\* ----------------------------------------------- DeleteRequestActionView
\* mutant: the queryset is not restricted to pending requests
DeleteRequestActionQueryset_AnyStatus(user) ==
    LET user_transactions ==
            {t.id : t \in {x \in transactions :
                              x.initiator = user \/ x.friend = user}}
    IN  {d \in deleteRequests : /\ d.transaction \in user_transactions
                                /\ d.requester # user}

\* mutant: the requester's own requests are not excluded
DeleteRequestActionQueryset_IncludingRequester(user) ==
    LET user_transactions ==
            {t.id : t \in {x \in transactions :
                              x.initiator = user \/ x.friend = user}}
    IN  {d \in deleteRequests : /\ d.transaction \in user_transactions
                                /\ d.status = PENDING}

\* mutant: only the transactions the user initiated are considered
DeleteRequestActionQueryset_InitiatorOnly(user) ==
    LET user_transactions ==
            {t.id : t \in {x \in transactions : x.initiator = user}}
    IN  {d \in deleteRequests : /\ d.transaction \in user_transactions
                                /\ d.status = PENDING
                                /\ d.requester # user}

DeleteRequestActionQueryset(user) ==
    LET user_transactions ==
            {t.id : t \in {x \in transactions :
                              x.initiator = user \/ x.friend = user}}
    IN  {d \in deleteRequests : /\ d.transaction \in user_transactions
                                /\ d.status = PENDING
                                /\ d.requester # user}

\* Model.delete() / QuerySet.delete() of FriendTransaction rows: the
\* on_delete=CASCADE foreign key removes, with each deleted row, the delete
\* requests that reference it
\* mutant: the foreign key does not cascade
CascadeDeleteRequests_DoNothing(requests, deleted_ids) ==
    requests

CascadeDeleteRequests(requests, deleted_ids) ==
    {d \in requests : d.transaction \notin deleted_ids}

\* mutant: the delete removes every transaction of the same two users
DeleteTransaction_WholePair(rows, transaction_id) ==
    LET doomed == {t \in rows : t.id = transaction_id}
    IN  {t \in rows : \A x \in doomed :
            {t.initiator, t.friend} # {x.initiator, x.friend}}

\* transaction.delete(): the FriendTransaction table without that row
DeleteTransaction(rows, transaction_id) ==
    {t \in rows : t.id # transaction_id}

DeleteRequestActionResponse(user, pk, action) ==
    LET found == get_object(DeleteRequestActionQueryset(user), pk)
        new_status == DeleteRequestActionSerializer(action)
    IN  IF found = {}
        THEN Raise(NotFound, "not found")
        ELSE IF new_status = Null
        THEN Raise(ValidationError, "invalid choice")
        ELSE Respond(new_status, 0)

DeleteRequestAction(user, pk, action) ==
    /\ DeleteRequestActionResponse(user, pk, action).res = OK
    /\ LET delete_request ==
               First(get_object(DeleteRequestActionQueryset(user), pk))
           new_status == DeleteRequestActionSerializer(action)
           saved == (deleteRequests \ {delete_request}) \cup
                        {[delete_request EXCEPT !.status = new_status]}
       IN  IF new_status = APPROVED
           THEN /\ transactions' =
                      DeleteTransaction(transactions, delete_request.transaction)
                /\ deleteRequests' =
                      CascadeDeleteRequests(saved, {delete_request.transaction})
           ELSE /\ deleteRequests' = saved
                /\ UNCHANGED transactions
    /\ UNCHANGED <<friendships, resetRequests,
                   nextFriendship, nextTransaction, nextDelete, nextReset, inflight, calls>>

\* ----------------------------------------------- RequestHistoryResetView
\* mutant: only requests in the caller's own direction are looked up
ExistingResetRequests_Directed(requester, target_user) ==
    {r \in resetRequests :
        /\ r.requester = requester /\ r.target_user = target_user
        /\ r.status = PENDING}

\* mutant: requests of every status count as existing
ExistingResetRequests_AnyStatus(requester, target_user) ==
    {r \in resetRequests :
        \/ (r.requester = requester /\ r.target_user = target_user)
        \/ (r.requester = target_user /\ r.target_user = requester)}

\* HistoryResetRequest.objects.filter(Q(...) | Q(...), status=PENDING)
ExistingResetRequests(requester, target_user) ==
    {r \in resetRequests :
        /\ \/ (r.requester = requester /\ r.target_user = target_user)
           \/ (r.requester = target_user /\ r.target_user = requester)
        /\ r.status = PENDING}

RequestHistoryResetResponse(requester, friend_username) ==
    IF friend_username = ""
    THEN Raise(ValidationError, "username must be provided")
    ELSE IF friend_username \notin Users
    THEN Raise(NotFound, "friend not found")
    ELSE IF requester = friend_username
    THEN Raise(ValidationError, "reset with yourself")
    ELSE IF ~are_friends(requester, friend_username)
    THEN Raise(ValidationError, "not friends")
    ELSE IF ExistingResetRequests(requester, friend_username) # {}
    THEN Raise(ValidationError, "reset request already exists")
    ELSE Respond("created", 0)

\* mutant: the row is saved before the pending-request check
RequestHistoryReset_SaveBeforeCheck(requester, friend_username) ==
    /\ \/ RequestHistoryResetResponse(requester, friend_username).res = OK
       \/ RequestHistoryResetResponse(requester, friend_username).msg =
                "reset request already exists"
    /\ Inserted < MaxRows
    /\ resetRequests' = resetRequests \cup
            {[id |-> nextReset, requester |-> requester,
              target_user |-> friend_username, status |-> PENDING]}
    /\ nextReset' = nextReset + 1
    /\ UNCHANGED <<friendships, transactions, deleteRequests,
                   nextFriendship, nextTransaction, nextDelete, inflight, calls>>

RequestHistoryReset(requester, friend_username) ==
    /\ RequestHistoryResetResponse(requester, friend_username).res = OK
    /\ Inserted < MaxRows
    /\ resetRequests' = resetRequests \cup
            {[id |-> nextReset, requester |-> requester,
              target_user |-> friend_username, status |-> PENDING]}
    /\ nextReset' = nextReset + 1
    /\ UNCHANGED <<friendships, transactions, deleteRequests,
                   nextFriendship, nextTransaction, nextDelete, inflight, calls>>

\* ---------------------------------------------- PendingResetRequestsView
PendingResetRequests(user) ==
    {r \in resetRequests : r.target_user = user /\ r.status = PENDING}

\* ------------------------------------------------ ResetRequestActionView
\* mutant: the queryset is not restricted to the caller as target
ResetRequestActionQueryset_AnyUser(user) ==
    {r \in resetRequests : r.status = PENDING}

ResetRequestActionQueryset(user) ==
    {r \in resetRequests : r.target_user = user /\ r.status = PENDING}

\* mutant: the status filter is missing
transactions_to_delete_AnyStatus(requester, target) ==
    {t \in transactions :
        \/ (t.initiator = requester /\ t.friend = target)
        \/ (t.initiator = target /\ t.friend = requester)}

\* the accepted transactions between the two users, both directions
transactions_to_delete(requester, target) ==
    {t \in transactions :
        /\ \/ (t.initiator = requester /\ t.friend = target)
           \/ (t.initiator = target /\ t.friend = requester)
        /\ t.status = ACCEPTED}

ResetRequestActionResponse(user, pk, action) ==
    LET found == get_object(ResetRequestActionQueryset(user), pk)
        new_status == ResetRequestActionSerializer(action)
    IN  IF found = {}
        THEN Raise(NotFound, "not found")
        ELSE IF new_status = Null
        THEN Raise(ValidationError, "invalid choice")
        ELSE IF new_status = APPROVED
        THEN Respond(new_status,
                     Cardinality(transactions_to_delete(
                         First(found).requester, First(found).target_user)))
        ELSE Respond(new_status, 0)

ResetRequestAction(user, pk, action) ==
    /\ ResetRequestActionResponse(user, pk, action).res = OK
    /\ LET reset_request ==
               First(get_object(ResetRequestActionQueryset(user), pk))
           new_status == ResetRequestActionSerializer(action)
           doomed == transactions_to_delete(reset_request.requester,
                                            reset_request.target_user)
       IN  /\ resetRequests' = (resetRequests \ {reset_request}) \cup
                    {[reset_request EXCEPT !.status = new_status]}
           /\ IF new_status = APPROVED
              THEN /\ transactions' = transactions \ doomed
                   /\ deleteRequests' = CascadeDeleteRequests(
                          deleteRequests, {t.id : t \in doomed})
              ELSE UNCHANGED <<transactions, deleteRequests>>
    /\ UNCHANGED <<friendships,
                   nextFriendship, nextTransaction, nextDelete, nextReset, inflight, calls>>

\* ------------------------------------------------------------------ system
Next ==
    \/ \E u \in Users, n \in Usernames : FriendRequestSend(u, n)
    \/ \E u \in Users, pk \in Pks, a \in ActionInputs :
            FriendRequestAction(u, pk, a)
    \/ \E u \in Users, n \in Usernames, amount \in Amounts :
            CreateTransaction(u, n, amount)
    \/ \E u \in Users, pk \in Pks, a \in ActionInputs :
            TransactionAction(u, pk, a)
    \/ \E u \in Users, t \in TransactionIds : RequestTransactionDelete(u, t)
    \/ \E u \in Users, pk \in Pks, a \in ActionInputs :
            DeleteRequestAction(u, pk, a)
    \/ \E u \in Users, n \in Usernames : RequestHistoryReset(u, n)
    \/ \E u \in Users, pk \in Pks, a \in ActionInputs :
            ResetRequestAction(u, pk, a)

Spec == Init /\ [][Next]_vars

\* every user who can act on a pending row does so at some time: an act call
\* that stays possible is eventually made
SpecFair ==
    /\ Spec
    /\ \A pk \in Pks :
        /\ WF_vars(\E u \in Users, a \in ActionInputs :
                        FriendRequestAction(u, pk, a))
        /\ WF_vars(\E u \in Users, a \in ActionInputs :
                        TransactionAction(u, pk, a))
        /\ WF_vars(\E u \in Users, a \in ActionInputs :
                        DeleteRequestAction(u, pk, a))
        /\ WF_vars(\E u \in Users, a \in ActionInputs :
                        ResetRequestAction(u, pk, a))

\* ------------------------------- FriendRequestSendView, step by step
\* perform_create runs outside any transaction and takes no lock: the lookup
\* and its refusals are one database read, serializer.save() is a later
\* INSERT, and other requests may run in between.

\* the INSERT of a Friendship row: the database enforces the UniqueConstraint
\* on (requester, receiver) and the CheckConstraint requester # receiver
FriendshipInsertAllowed(requester, receiver) ==
    /\ requester # receiver
    /\ ~\E f \in friendships :
            f.requester = requester /\ f.receiver = receiver

\* worker w receives the call and passes every check of perform_create
FriendRequestSendCheck(w, requester, receiver_username) ==
    /\ inflight[w] = Idle
    /\ Inserted + Cardinality({v \in Workers : inflight[v] # Idle}) < MaxRows
    /\ FriendRequestSendResponse(requester, receiver_username).res = OK
    /\ inflight' = [inflight EXCEPT ![w] = [requester |-> requester,
                                            receiver |-> receiver_username]]
    /\ UNCHANGED <<friendships, transactions, deleteRequests, resetRequests,
                   nextFriendship, nextTransaction, nextDelete, nextReset, calls>>

\* worker w reaches serializer.save(): the row is inserted, or the database
\* raises IntegrityError (an uncaught 500) and nothing is stored
FriendRequestSendInsert(w) ==
    /\ inflight[w] # Idle
    /\ IF FriendshipInsertAllowed(inflight[w].requester, inflight[w].receiver)
       THEN /\ friendships' = friendships \cup
                    {[id |-> nextFriendship, requester |-> inflight[w].requester,
                      receiver |-> inflight[w].receiver, status |-> PENDING]}
            /\ nextFriendship' = nextFriendship + 1
       ELSE UNCHANGED <<friendships, nextFriendship>>
    /\ inflight' = [inflight EXCEPT ![w] = Idle]
    /\ UNCHANGED <<transactions, deleteRequests, resetRequests,
                   nextTransaction, nextDelete, nextReset, calls>>

NextRace ==
    \/ \E w \in Workers, u \in Users, n \in Usernames :
            FriendRequestSendCheck(w, u, n)
    \/ \E w \in Workers : FriendRequestSendInsert(w)
    \/ \E u \in Users, pk \in Pks, a \in ActionInputs :
            FriendRequestAction(u, pk, a)

SpecRace == Init /\ [][NextRace]_vars

\* ------------------------------------- the act views, statement by statement
\* update() of the four act views runs outside any transaction: get_object()
\* is a SELECT, instance.save() a later UPDATE by primary key, and the delete
\* that follows an approval a third statement; other requests may run in
\* between.
DoesNotExist == "DoesNotExist"

Call(view, pc, user, instance, new_status) ==
    [view |-> view, pc |-> pc, user |-> user, instance |-> instance,
     new_status |-> new_status, res |-> OK, count |-> 0]

\* the call ends in an uncaught exception (HTTP 500)
Crash(call, res) == [call EXCEPT !.pc = "crashed", !.res = res]

\* worker w can take the next request
Free(w) == calls[w].pc \in {"idle", "crashed"}

At(w, view, pc) == calls[w].view = view /\ calls[w].pc = pc

\* Model.save() of an instance loaded from the database: UPDATE ... WHERE
\* pk = instance.pk, and when that matches no row, INSERT of the instance
SaveRow(table, row) == {r \in table : r.id # row.id} \cup {row}

\* friendship = self.get_object(); serializer.is_valid()
FriendRequestActionGet(w, user, pk, action) ==
    /\ Free(w)
    /\ FriendRequestActionResponse(user, pk, action).res = OK
    /\ calls' = [calls EXCEPT ![w] =
            Call("FriendRequestAction", "save", user,
                 First(get_object(FriendRequestActionQueryset(user), pk)),
                 FriendshipStatusUpdateSerializer(action))]
    /\ UNCHANGED <<friendships, transactions, deleteRequests, resetRequests,
                   nextFriendship, nextTransaction, nextDelete, nextReset,
                   inflight>>

\* friendship.status = new_status; friendship.save()
FriendRequestActionSave(w) ==
    /\ At(w, "FriendRequestAction", "save")
    /\ friendships' = SaveRow(friendships,
            [calls[w].instance EXCEPT !.status = calls[w].new_status])
    /\ calls' = [calls EXCEPT ![w] = NoCall]
    /\ UNCHANGED <<transactions, deleteRequests, resetRequests,
                   nextFriendship, nextTransaction, nextDelete, nextReset,
                   inflight>>

\* transaction = self.get_object(); serializer.is_valid()
TransactionActionGet(w, user, pk, action) ==
    /\ Free(w)
    /\ TransactionActionResponse(user, pk, action).res = OK
    /\ calls' = [calls EXCEPT ![w] =
            Call("TransactionAction", "save", user,
                 First(get_object(TransactionActionQueryset(user), pk)),
                 TransactionStatusUpdateSerializer(action))]
    /\ UNCHANGED <<friendships, transactions, deleteRequests, resetRequests,
                   nextFriendship, nextTransaction, nextDelete, nextReset,
                   inflight>>

\* transaction.status = new_status; transaction.action_taken_by =
\* request.user; transaction.save()
TransactionActionSave(w) ==
    /\ At(w, "TransactionAction", "save")
    /\ transactions' = SaveRow(transactions,
            [calls[w].instance EXCEPT !.status = calls[w].new_status,
                                      !.action_taken_by = calls[w].user])
    /\ calls' = [calls EXCEPT ![w] = NoCall]
    /\ UNCHANGED <<friendships, deleteRequests, resetRequests,
                   nextFriendship, nextTransaction, nextDelete, nextReset,
                   inflight>>

\* delete_request = self.get_object(); serializer.is_valid()
DeleteRequestActionGet(w, user, pk, action) ==
    /\ Free(w)
    /\ DeleteRequestActionResponse(user, pk, action).res = OK
    /\ calls' = [calls EXCEPT ![w] =
            Call("DeleteRequestAction", "save", user,
                 First(get_object(DeleteRequestActionQueryset(user), pk)),
                 DeleteRequestActionSerializer(action))]
    /\ UNCHANGED <<friendships, transactions, deleteRequests, resetRequests,
                   nextFriendship, nextTransaction, nextDelete, nextReset,
                   inflight>>

\* delete_request.status = new_status; delete_request.save(). When the row
\* has been removed meanwhile the save is an INSERT, which the database
\* refuses with IntegrityError if the transaction is gone (foreign key) or the
\* pair (transaction, requester) is taken (unique_together)
DeleteRequestActionSave(w) ==
    /\ At(w, "DeleteRequestAction", "save")
    /\ LET row == [calls[w].instance EXCEPT !.status = calls[w].new_status]
           stored == \E d \in deleteRequests : d.id = row.id
           insertable ==
               /\ \E t \in transactions : t.id = row.transaction
               /\ DeleteRequestInsertAllowed(row.transaction, row.requester)
       IN  IF stored \/ insertable
           THEN /\ deleteRequests' = SaveRow(deleteRequests, row)
                /\ calls' = [calls EXCEPT ![w] =
                        IF calls[w].new_status = APPROVED
                        THEN [calls[w] EXCEPT !.pc = "delete"]
                        ELSE NoCall]
           ELSE /\ UNCHANGED deleteRequests
                /\ calls' = [calls EXCEPT ![w] = Crash(calls[w], IntegrityError)]
    /\ UNCHANGED <<friendships, transactions, resetRequests,
                   nextFriendship, nextTransaction, nextDelete, nextReset,
                   inflight>>

\* transaction = delete_request.transaction; transaction.delete(). The
\* attribute access is a SELECT by primary key and raises
\* FriendTransaction.DoesNotExist when the row is gone
DeleteRequestActionDelete(w) ==
    /\ At(w, "DeleteRequestAction", "delete")
    /\ LET transaction_id == calls[w].instance.transaction
       IN  IF \E t \in transactions : t.id = transaction_id
           THEN /\ transactions' = DeleteTransaction(transactions, transaction_id)
                /\ deleteRequests' =
                        CascadeDeleteRequests(deleteRequests, {transaction_id})
                /\ calls' = [calls EXCEPT ![w] = NoCall]
           ELSE /\ UNCHANGED <<transactions, deleteRequests>>
                /\ calls' = [calls EXCEPT ![w] = Crash(calls[w], DoesNotExist)]
    /\ UNCHANGED <<friendships, resetRequests,
                   nextFriendship, nextTransaction, nextDelete, nextReset,
                   inflight>>

\* reset_request = self.get_object(); serializer.is_valid()
ResetRequestActionGet(w, user, pk, action) ==
    /\ Free(w)
    /\ ResetRequestActionResponse(user, pk, action).res = OK
    /\ calls' = [calls EXCEPT ![w] =
            Call("ResetRequestAction", "save", user,
                 First(get_object(ResetRequestActionQueryset(user), pk)),
                 ResetRequestActionSerializer(action))]
    /\ UNCHANGED <<friendships, transactions, deleteRequests, resetRequests,
                   nextFriendship, nextTransaction, nextDelete, nextReset,
                   inflight>>

\* reset_request.status = new_status; reset_request.save()
ResetRequestActionSave(w) ==
    /\ At(w, "ResetRequestAction", "save")
    /\ resetRequests' = SaveRow(resetRequests,
            [calls[w].instance EXCEPT !.status = calls[w].new_status])
    /\ calls' = [calls EXCEPT ![w] =
            IF calls[w].new_status = APPROVED
            THEN [calls[w] EXCEPT !.pc = "count"]
            ELSE NoCall]
    /\ UNCHANGED <<friendships, transactions, deleteRequests,
                   nextFriendship, nextTransaction, nextDelete, nextReset,
                   inflight>>

\* transactions_to_delete = FriendTransaction.objects.filter(...), a lazy
\* queryset; count = transactions_to_delete.count() runs SELECT COUNT(*) now
\* and the call keeps the number for its response
ResetRequestActionCount(w) ==
    /\ At(w, "ResetRequestAction", "count")
    /\ calls' = [calls EXCEPT ![w] =
            [calls[w] EXCEPT
                !.pc = "delete",
                !.count = Cardinality(transactions_to_delete(
                              calls[w].instance.requester,
                              calls[w].instance.target_user))]]
    /\ UNCHANGED <<friendships, transactions, deleteRequests, resetRequests,
                   nextFriendship, nextTransaction, nextDelete, nextReset,
                   inflight>>

\* transactions_to_delete.delete() runs the filter again: the rows that match
\* at this moment are deleted; its return value is not used
ResetRequestActionDelete(w) ==
    /\ At(w, "ResetRequestAction", "delete")
    /\ LET doomed == transactions_to_delete(calls[w].instance.requester,
                                            calls[w].instance.target_user)
       IN  /\ transactions' = transactions \ doomed
           /\ deleteRequests' =
                  CascadeDeleteRequests(deleteRequests, {t.id : t \in doomed})
    /\ calls' = [calls EXCEPT ![w] = NoCall]
    /\ UNCHANGED <<friendships, resetRequests,
                   nextFriendship, nextTransaction, nextDelete, nextReset,
                   inflight>>

\* the users whose requests are interleaved: the two parties of one pair; the
\* third user exists and can be named but sends nothing
RaceUsers == {"alice", "bob"}

\* requests are created in one step each, act calls run statement by statement
NextActRace ==
    \/ \E u \in RaceUsers, n \in Usernames : FriendRequestSend(u, n)
    \/ \E u \in RaceUsers, n \in Usernames, amount \in Amounts :
            CreateTransaction(u, n, amount)
    \/ \E u \in RaceUsers, t \in TransactionIds : RequestTransactionDelete(u, t)
    \/ \E u \in RaceUsers, n \in Usernames : RequestHistoryReset(u, n)
    \/ \E w \in Workers, u \in RaceUsers, pk \in Pks, a \in ActionInputs :
            FriendRequestActionGet(w, u, pk, a)
    \/ \E w \in Workers : FriendRequestActionSave(w)
    \/ \E w \in Workers, u \in RaceUsers, pk \in Pks, a \in ActionInputs :
            TransactionActionGet(w, u, pk, a)
    \/ \E w \in Workers : TransactionActionSave(w)
    \/ \E w \in Workers, u \in RaceUsers, pk \in Pks, a \in ActionInputs :
            DeleteRequestActionGet(w, u, pk, a)
    \/ \E w \in Workers : DeleteRequestActionSave(w)
    \/ \E w \in Workers : DeleteRequestActionDelete(w)
    \/ \E w \in Workers, u \in RaceUsers, pk \in Pks, a \in ActionInputs :
            ResetRequestActionGet(w, u, pk, a)
    \/ \E w \in Workers : ResetRequestActionSave(w)
    \/ \E w \in Workers : ResetRequestActionCount(w)
    \/ \E w \in Workers : ResetRequestActionDelete(w)

SpecActRace == Init /\ [][NextActRace]_vars

\* ------------------------------- the request views, statement by statement
\* perform_create of RequestTransactionDeleteView and RequestHistoryResetView
\* runs outside any transaction: the lookups and their refusals come first,
\* serializer.save() is a later INSERT.

\* calls that have passed their checks and still hold a row to insert
Reserved == Cardinality({w \in Workers : calls[w].pc = "insert"})

\* every check of perform_create passes; the unique_together of
\* TransactionDeleteRequest is not looked at before the INSERT
RequestTransactionDeleteCheck(w, requester, transaction_id) ==
    /\ Free(w)
    /\ Inserted + Reserved < MaxRows
    /\ RequestTransactionDeleteResponse(requester, transaction_id).res
            \in {OK, IntegrityError}
    /\ calls' = [calls EXCEPT ![w] =
            Call("RequestTransactionDelete", "insert", requester,
                 [transaction |-> transaction_id, requester |-> requester],
                 PENDING)]
    /\ UNCHANGED <<friendships, transactions, deleteRequests, resetRequests,
                   nextFriendship, nextTransaction, nextDelete, nextReset,
                   inflight>>

\* serializer.save(transaction=..., requester=..., status=PENDING): the
\* database refuses the INSERT with IntegrityError when the transaction is
\* gone (foreign key) or the pair (transaction, requester) is taken
RequestTransactionDeleteInsert(w) ==
    /\ At(w, "RequestTransactionDelete", "insert")
    /\ LET row == calls[w].instance
       IN  IF /\ \E t \in transactions : t.id = row.transaction
              /\ DeleteRequestInsertAllowed(row.transaction, row.requester)
           THEN /\ deleteRequests' = deleteRequests \cup
                        {[id |-> nextDelete, transaction |-> row.transaction,
                          requester |-> row.requester, status |-> PENDING]}
                /\ nextDelete' = nextDelete + 1
                /\ calls' = [calls EXCEPT ![w] = NoCall]
           ELSE /\ UNCHANGED <<deleteRequests, nextDelete>>
                /\ calls' = [calls EXCEPT ![w] = Crash(calls[w], IntegrityError)]
    /\ UNCHANGED <<friendships, transactions, resetRequests,
                   nextFriendship, nextTransaction, nextReset, inflight>>

\* every check of perform_create passes
RequestHistoryResetCheck(w, requester, friend_username) ==
    /\ Free(w)
    /\ Inserted + Reserved < MaxRows
    /\ RequestHistoryResetResponse(requester, friend_username).res = OK
    /\ calls' = [calls EXCEPT ![w] =
            Call("RequestHistoryReset", "insert", requester,
                 [requester |-> requester, target_user |-> friend_username],
                 PENDING)]
    /\ UNCHANGED <<friendships, transactions, deleteRequests, resetRequests,
                   nextFriendship, nextTransaction, nextDelete, nextReset,
                   inflight>>

\* serializer.save(requester=..., target_user=..., status=PENDING);
\* HistoryResetRequest has no constraint that could refuse the INSERT
RequestHistoryResetInsert(w) ==
    /\ At(w, "RequestHistoryReset", "insert")
    /\ resetRequests' = resetRequests \cup
            {[id |-> nextReset, requester |-> calls[w].instance.requester,
              target_user |-> calls[w].instance.target_user,
              status |-> PENDING]}
    /\ nextReset' = nextReset + 1
    /\ calls' = [calls EXCEPT ![w] = NoCall]
    /\ UNCHANGED <<friendships, transactions, deleteRequests,
                   nextFriendship, nextTransaction, nextDelete, inflight>>

\* delete and reset requests are filed statement by statement, every other
\* call runs in one step
NextRequestRace ==
    \/ \E u \in RaceUsers, n \in Usernames : FriendRequestSend(u, n)
    \/ \E u \in RaceUsers, pk \in Pks, a \in ActionInputs :
            FriendRequestAction(u, pk, a)
    \/ \E u \in RaceUsers, n \in Usernames, amount \in Amounts :
            CreateTransaction(u, n, amount)
    \/ \E u \in RaceUsers, pk \in Pks, a \in ActionInputs :
            TransactionAction(u, pk, a)
    \/ \E w \in Workers, u \in RaceUsers, t \in TransactionIds :
            RequestTransactionDeleteCheck(w, u, t)
    \/ \E w \in Workers : RequestTransactionDeleteInsert(w)
    \/ \E u \in RaceUsers, pk \in Pks, a \in ActionInputs :
            DeleteRequestAction(u, pk, a)
    \/ \E w \in Workers, u \in RaceUsers, n \in Usernames :
            RequestHistoryResetCheck(w, u, n)
    \/ \E w \in Workers : RequestHistoryResetInsert(w)
    \/ \E u \in RaceUsers, pk \in Pks, a \in ActionInputs :
            ResetRequestAction(u, pk, a)

SpecRequestRace == Init /\ [][NextRequestRace]_vars

\* ================================================================ claims
Ids(S) == {r.id : r \in S}
Between(a, b) ==
    {f \in friendships : {f.requester, f.receiver} = {a, b}}

\* the messages of the duplicate-relationship refusals of FriendRequestSendView
ConflictMessage(existing, requester) ==
    IF existing.status = ACCEPTED THEN "already friends"
    ELSE IF existing.requester = requester THEN "already sent"
    ELSE "they already sent you a request"

\* C1: while a pending or accepted Friendship exists between two distinct
\* users, a sendRequest by either of them to the other is refused with the
\* duplicate-relationship error (a 400 ValidationError whose message names the
\* existing row's state and direction) and inserts no row.
C1_SendRequestConflict ==
    \A a \in Users, b \in Users :
        \A f \in Between(a, b) :
            (a # b /\ f.status \in {PENDING, ACCEPTED}) =>
                /\ FriendRequestSendResponse(a, b).res = ValidationError
                /\ FriendRequestSendResponse(a, b).msg = ConflictMessage(f, a)
                /\ ~ENABLED FriendRequestSend(a, b)

\* a pending request refuses both its author's resend and the reverse request
C1_Witness ==
    \E f \in friendships :
        /\ f.status = PENDING
        /\ FriendRequestSendResponse(f.requester, f.receiver).msg = "already sent"
        /\ FriendRequestSendResponse(f.receiver, f.requester).msg =
                "they already sent you a request"
        /\ \E g \in friendships : g.status = ACCEPTED

\* C2: in every reachable state there is at most one Friendship row per
\* unordered pair of users, and no row has requester equal to receiver.
C2_FriendshipUniquePerPair ==
    /\ \A f \in friendships : f.requester # f.receiver
    /\ \A f \in friendships, g \in friendships :
            {f.requester, f.receiver} = {g.requester, g.receiver} => f = g

\* two pairs hold a row each, and the reverse request of one is refused
C2_Witness ==
    /\ Cardinality(friendships) = 2
    /\ \E f \in friendships :
            FriendRequestSendResponse(f.receiver, f.requester).res = ValidationError

\* a step leaves Friendship f as it is, or is the receiver's accept/reject of
\* the pending f
C3_Step(f) ==
    \E g \in friendships' :
        /\ g.id = f.id /\ g.requester = f.requester /\ g.receiver = f.receiver
        /\ g.status # f.status =>
              /\ f.status = PENDING
              /\ g.status \in {ACCEPTED, REJECTED}
              /\ \E a \in {"accept", "reject"} :
                    FriendRequestAction(f.receiver, f.id, a)

\* C3: a Friendship's status changes only from pending to accepted or
\* rejected and only by an actOnRequest step of its receiver; a call by the
\* requester or a third user gets NotFound and is no step; an accepted or
\* rejected row never changes.
C3_FriendshipLifecycle ==
    /\ [](\A f \in friendships, u \in Users, a \in ActionInputs :
            (f.status = PENDING /\ u # f.receiver) =>
                /\ FriendRequestActionResponse(u, f.id, a).res = NotFound
                /\ ~ENABLED FriendRequestAction(u, f.id, a))
    /\ [][\A f \in friendships : C3_Step(f)]_vars

\* one request has been accepted, another is pending and refuses its author
C3_Witness ==
    /\ \E f \in friendships : f.status = ACCEPTED
    /\ \E g \in friendships :
            /\ g.status = PENDING
            /\ FriendRequestActionResponse(g.requester, g.id, "accept").res = NotFound

\* ids of the rows of a table that were inserted and are no longer pending
\* (resolved, or removed with their transaction)
NotPending(table, next) ==
    {pk \in 1..(next - 1) : ~\E r \in table : r.id = pk /\ r.status = PENDING}

\* C4: for each of the four entities, once a row is resolved every act call on
\* its id, by any user and with any action, gets NotFound and is no step.
C4_ResolvedIsNotFound ==
    \A u \in Users, a \in ActionInputs :
        /\ \A pk \in NotPending(friendships, nextFriendship) :
                /\ FriendRequestActionResponse(u, pk, a).res = NotFound
                /\ ~ENABLED FriendRequestAction(u, pk, a)
        /\ \A pk \in NotPending(transactions, nextTransaction) :
                /\ TransactionActionResponse(u, pk, a).res = NotFound
                /\ ~ENABLED TransactionAction(u, pk, a)
        /\ \A pk \in NotPending(deleteRequests, nextDelete) :
                /\ DeleteRequestActionResponse(u, pk, a).res = NotFound
                /\ ~ENABLED DeleteRequestAction(u, pk, a)
        /\ \A pk \in NotPending(resetRequests, nextReset) :
                /\ ResetRequestActionResponse(u, pk, a).res = NotFound
                /\ ~ENABLED ResetRequestAction(u, pk, a)

\* a resolved row of each of the four entities exists
C4_Witness ==
    /\ \E f \in friendships : f.status = ACCEPTED
    /\ \E t \in transactions : t.status = REJECTED
    /\ \E d \in deleteRequests : d.status = REJECTED
    /\ \E r \in resetRequests : r.status = APPROVED

AcceptedBetween(a, b) ==
    \E f \in friendships :
        f.status = ACCEPTED /\ {f.requester, f.receiver} = {a, b}

\* C5: create-transaction is refused with a 400 ValidationError and inserts no
\* row when the amount is 0, when the initiator names themselves, and when no
\* accepted Friendship joins initiator and friend in either direction.
C5_CreateTransactionRefused ==
    \A u \in Users, n \in Usernames, amount \in Amounts :
        (\/ amount = 0
         \/ n = u
         \/ (n \in Users /\ ~AcceptedBetween(u, n))) =>
            /\ CreateTransactionResponse(u, n, amount).res = ValidationError
            /\ ~ENABLED CreateTransaction(u, n, amount)

\* a transaction has been created, and a pair whose only Friendship is pending
\* or rejected is refused as not friends
C5_Witness ==
    /\ transactions # {}
    /\ \E f \in friendships :
            /\ f.status \in {PENDING, REJECTED}
            /\ CreateTransactionResponse(f.requester, f.receiver, 5).msg = "not friends"
            /\ CreateTransactionResponse(f.receiver, f.requester, 5).msg = "not friends"
            /\ CreateTransactionResponse(f.receiver, f.receiver, 5).res = ValidationError
            /\ CreateTransactionResponse(f.receiver, f.requester, 0).res = ValidationError

\* C6: in every reachable state every FriendTransaction has initiator
\* different from friend, a nonzero amount, and an accepted Friendship between
\* its initiator and friend in one direction or the other.
C6_TransactionInvariant ==
    \A t \in transactions :
        /\ t.initiator # t.friend
        /\ t.amount # 0
        /\ AcceptedBetween(t.initiator, t.friend)

\* a transaction whose initiator is the receiver of the accepted Friendship
C6_Witness ==
    \E t \in transactions, f \in friendships :
        /\ f.status = ACCEPTED
        /\ f.receiver = t.initiator /\ f.requester = t.friend

\* a step leaves FriendTransaction t as it is, removes it, or is the friend's
\* accept/reject of the pending t
C7_Step(t) ==
    \A g \in transactions' :
        (g.id = t.id /\ g # t) =>
            /\ t.status = PENDING
            /\ \E a \in {"accept", "reject"} : TransactionAction(t.friend, t.id, a)

\* C7: a FriendTransaction is created pending, and its status changes only by
\* an actOnTransaction step of its friend while it is pending; a call by the
\* initiator or a third user gets NotFound and is no step.
C7_TransactionLifecycle ==
    /\ [](\A t \in transactions, u \in Users, a \in ActionInputs :
            (t.status = PENDING /\ u # t.friend) =>
                /\ TransactionActionResponse(u, t.id, a).res = NotFound
                /\ ~ENABLED TransactionAction(u, t.id, a))
    /\ [][/\ \A g \in transactions' :
                g.id \notin Ids(transactions) =>
                    g.status = PENDING /\ g.action_taken_by = Null
          /\ \A t \in transactions : C7_Step(t)]_vars

\* one transaction has been accepted, another is pending and refuses its
\* initiator
C7_Witness ==
    /\ \E t \in transactions : t.status = ACCEPTED
    /\ \E g \in transactions :
            /\ g.status = PENDING
            /\ TransactionActionResponse(g.initiator, g.id, "accept").res = NotFound

\* C8: for every FriendTransaction, action_taken_by is unset exactly when the
\* status is pending, and is the transaction's friend once it is accepted or
\* rejected.
C8_ActionTakenBy ==
    \A t \in transactions :
        /\ (t.action_taken_by = Null) <=> (t.status = PENDING)
        /\ t.status \in {ACCEPTED, REJECTED} => t.action_taken_by = t.friend

\* a pending transaction beside a rejected one stamped with its friend
C8_Witness ==
    /\ \E t \in transactions : t.status = PENDING
    /\ \E t \in transactions :
            t.status = REJECTED /\ t.action_taken_by = t.friend

\* the transaction is in the history list either of its users is given
InHistory(t) ==
    /\ \E i \in DOMAIN TransactionHistory(t.initiator, t.friend) :
            TransactionHistory(t.initiator, t.friend)[i] = t
    /\ \E i \in DOMAIN TransactionHistory(t.friend, t.initiator) :
            TransactionHistory(t.friend, t.initiator)[i] = t

\* the effect on the FriendTransaction table of acting on delete request d
C9_Effect(d, action) ==
    /\ action = "approve" =>
          /\ d.transaction \in Ids(transactions)
          /\ d.transaction \notin Ids(transactions')
          /\ \A t \in transactions : t.id # d.transaction => t \in transactions'
          /\ transactions' \subseteq transactions
    /\ action = "reject" =>
          /\ transactions' = transactions
          /\ d.transaction \in Ids(transactions')
          /\ \A t \in transactions : InHistory(t)'

\* C9: approving a delete request removes exactly the transaction it
\* references and leaves every other FriendTransaction unchanged; rejecting it
\* leaves every FriendTransaction unchanged and still listed by history.
C9_DeleteRequestFrame ==
    [][\A u \in Users, d \in deleteRequests, a \in {"approve", "reject"} :
            DeleteRequestAction(u, d.id, a) => C9_Effect(d, a)]_vars

\* a delete request was approved (no reset request was ever filed): one of the
\* two transactions created is gone with its request, the other is in place
C9_Witness ==
    /\ nextTransaction = 3 /\ nextDelete = 2 /\ nextReset = 1
    /\ Cardinality(transactions) = 1
    /\ deleteRequests = {}

\* C10 (as claimed): after the counter-party approves a pending delete
\* request, the referenced transaction no longer exists and the
\* TransactionDeleteRequest row still exists with status approved.
C10_ApprovedRequestKept ==
    [][\A u \in Users, d \in deleteRequests :
            DeleteRequestAction(u, d.id, "approve") =>
                /\ d.transaction \notin Ids(transactions')
                /\ \E e \in deleteRequests' :
                        e.id = d.id /\ e.status = APPROVED]_vars

\* the accepted transactions whose two parties are the users of reset request r
AcceptedOfPair(r) ==
    {t \in transactions :
        /\ {t.initiator, t.friend} = {r.requester, r.target_user}
        /\ t.status = ACCEPTED}

\* C11: approving a reset request deletes exactly the transactions between its
\* two users (either direction) that are accepted at that moment, leaves the
\* pending and rejected ones and every other user's transactions unchanged,
\* and reports as count the number of rows deleted.
C11_ResetApprovalDeletesAccepted ==
    [][\A u \in Users, r \in resetRequests :
            ResetRequestAction(u, r.id, "approve") =>
                /\ transactions' = transactions \ AcceptedOfPair(r)
                /\ ResetRequestActionResponse(u, r.id, "approve").count =
                        Cardinality(transactions) - Cardinality(transactions')]_vars

\* a reset was approved (no delete request was ever filed): of the two
\* transactions of the pair the accepted one is gone, the pending one remains
C11_Witness ==
    /\ nextTransaction = 3 /\ nextDelete = 1
    /\ \E r \in resetRequests, t \in transactions :
            /\ r.status = APPROVED
            /\ transactions = {t}
            /\ t.status = PENDING
            /\ {t.initiator, t.friend} = {r.requester, r.target_user}

\* C12: rejecting a reset request changes only that request's status, to
\* rejected: no FriendTransaction, Friendship, delete request or other reset
\* request is created, changed or deleted.
C12_ResetRejectFrame ==
    [][\A u \in Users, r \in resetRequests :
            ResetRequestAction(u, r.id, "reject") =>
                /\ resetRequests' = (resetRequests \ {r}) \cup
                        {[r EXCEPT !.status = REJECTED]}
                /\ UNCHANGED <<friendships, transactions, deleteRequests,
                               nextFriendship, nextTransaction, nextDelete,
                               nextReset>>]_vars

\* a reset request was rejected and the accepted transaction of its pair and
\* the delete request on it are in place
C12_Witness ==
    \E r \in resetRequests, t \in transactions, d \in deleteRequests :
        /\ r.status = REJECTED
        /\ t.status = ACCEPTED
        /\ {t.initiator, t.friend} = {r.requester, r.target_user}
        /\ d.transaction = t.id

PendingDeletesOn(transaction_id) ==
    {d \in deleteRequests :
        d.transaction = transaction_id /\ d.status = PENDING}

\* C13: in every reachable state each FriendTransaction has at most one
\* pending TransactionDeleteRequest, and while it has one a delete request by
\* either of its parties is refused with the duplicate-request error (a 400
\* ValidationError) and inserts no row.
C13_OnePendingDeletePerTransaction ==
    \A t \in transactions :
        /\ Cardinality(PendingDeletesOn(t.id)) <= 1
        /\ PendingDeletesOn(t.id) # {} =>
              \A u \in {t.initiator, t.friend} :
                  /\ RequestTransactionDeleteResponse(u, t.id).res = ValidationError
                  /\ RequestTransactionDeleteResponse(u, t.id).msg =
                        "delete request already exists"
                  /\ ~ENABLED RequestTransactionDelete(u, t.id)

\* a transaction has a pending delete request after an earlier one on it was
\* rejected, and both parties are refused a further one
C13_Witness ==
    \E t \in transactions, d \in deleteRequests, e \in deleteRequests :
        /\ d.transaction = t.id /\ d.status = PENDING
        /\ e.transaction = t.id /\ e.status = REJECTED
        /\ RequestTransactionDeleteResponse(t.initiator, t.id).res = ValidationError
        /\ RequestTransactionDeleteResponse(t.friend, t.id).res = ValidationError

\* the parties of the transaction delete request d references
PartiesOf(d) ==
    UNION {{t.initiator, t.friend} : t \in {x \in transactions : x.id = d.transaction}}

\* a step leaves the pending delete request d as it is, or is the
\* counter-party's approve/reject of d, or is a reset approval (which may
\* remove d together with its transaction)
C14_Step(d) ==
    (d.status = PENDING /\ d \notin deleteRequests') =>
        \/ \E u \in PartiesOf(d) \ {d.requester}, a \in {"approve", "reject"} :
                DeleteRequestAction(u, d.id, a)
        \/ /\ d.id \notin Ids(deleteRequests')
           /\ \E u \in Users, r \in resetRequests :
                ResetRequestAction(u, r.id, "approve")

\* C14: a pending delete request is approved or rejected only by the party of
\* its transaction who did not file it; an act call by the requester or by a
\* user who is no party of the transaction gets NotFound and is no step, so
\* the request stays pending and the transaction in place.
C14_DeleteRequestActor ==
    /\ [](\A d \in deleteRequests, u \in Users, a \in ActionInputs :
            (d.status = PENDING /\ (u = d.requester \/ u \notin PartiesOf(d))) =>
                /\ DeleteRequestActionResponse(u, d.id, a).res = NotFound
                /\ ~ENABLED DeleteRequestAction(u, d.id, a))
    /\ [][\A d \in deleteRequests : C14_Step(d)]_vars

\* one delete request has been rejected by the counter-party; another is
\* pending and refuses its requester and the user outside the transaction
C14_Witness ==
    /\ \E d \in deleteRequests : d.status = REJECTED
    /\ \E e \in deleteRequests :
            /\ e.status = PENDING
            /\ DeleteRequestActionResponse(e.requester, e.id, "approve").res = NotFound
            /\ \E u \in Users \ PartiesOf(e) :
                    DeleteRequestActionResponse(u, e.id, "approve").res = NotFound

\* the error class of an InvalidOperation refusal: a reset request that names
\* the requester is refused in every state (views.py:523)
InvalidOperationKind == RequestHistoryResetResponse("alice", "alice").res

C16_RequestAgainAfterReject ==
    \A t \in transactions : \A u \in {t.initiator, t.friend} :
        PendingDeletesOn(t.id) = {} =>
            RequestTransactionDeleteResponse(u, t.id).res = OK

\* the pending reset requests between a and b, in both directions
PendingResetsBetween(a, b) ==
    {r \in resetRequests :
        {r.requester, r.target_user} = {a, b} /\ r.status = PENDING}

\* C17: in every reachable state every HistoryResetRequest has a requester
\* different from its target_user, an accepted Friendship joins the two, and
\* each unordered pair of users has at most one pending reset request, both
\* directions counted.
C17_ResetRequestInvariant ==
    /\ \A r \in resetRequests :
            /\ r.requester # r.target_user
            /\ AcceptedBetween(r.requester, r.target_user)
    /\ \A a \in Users, b \in Users :
            Cardinality(PendingResetsBetween(a, b)) <= 1

\* a pair has a resolved reset request and a pending one filed in the reverse
\* direction
C17_Witness ==
    \E r \in resetRequests, q \in resetRequests :
        /\ r.status # PENDING /\ q.status = PENDING
        /\ q.requester = r.target_user /\ q.target_user = r.requester

\* C18: a reset request is refused with a 400 ValidationError and inserts no
\* row when the requester names themselves, when no accepted Friendship joins
\* requester and target, and when a pending reset request exists between the
\* two in either direction; with an accepted Friendship and no pending request
\* (earlier ones resolved or none) it is accepted.
C18_ResetRequestRefusals ==
    \A u \in Users, n \in Users :
        LET r == RequestHistoryResetResponse(u, n)
        IN  /\ u = n =>
                /\ r.res = ValidationError /\ r.msg = "reset with yourself"
                /\ ~ENABLED RequestHistoryReset(u, n)
            /\ (u # n /\ ~AcceptedBetween(u, n)) =>
                /\ r.res = ValidationError /\ r.msg = "not friends"
                /\ ~ENABLED RequestHistoryReset(u, n)
            /\ (u # n /\ AcceptedBetween(u, n) /\ PendingResetsBetween(u, n) # {}) =>
                /\ r.res = ValidationError /\ r.msg = "reset request already exists"
                /\ ~ENABLED RequestHistoryReset(u, n)
            /\ (u # n /\ AcceptedBetween(u, n) /\ PendingResetsBetween(u, n) = {}) =>
                /\ r.res = OK
                /\ Inserted < MaxRows => ENABLED RequestHistoryReset(u, n)

\* a pair whose two earlier reset requests were approved and rejected may file
\* a new one in either direction, while a third user is refused as no friend
C18_Witness ==
    \E r \in resetRequests, q \in resetRequests, u \in Users :
        /\ r.status = APPROVED /\ q.status = REJECTED
        /\ {q.requester, q.target_user} = {r.requester, r.target_user}
        /\ RequestHistoryResetResponse(r.requester, r.target_user).res = OK
        /\ RequestHistoryResetResponse(r.target_user, r.requester).res = OK
        /\ RequestHistoryResetResponse(u, r.requester).msg = "not friends"

\* C19: a pending reset request is approved or rejected only by its
\* target_user; an act call by the requester or a third user gets NotFound and
\* is no step, so the request stays pending and no transaction is deleted.
C19_ResetRequestActor ==
    /\ [](\A r \in resetRequests, u \in Users, a \in ActionInputs :
            (r.status = PENDING /\ u # r.target_user) =>
                /\ ResetRequestActionResponse(u, r.id, a).res = NotFound
                /\ ~ENABLED ResetRequestAction(u, r.id, a))
    /\ [][\A r \in resetRequests :
            (r.status = PENDING /\ r \notin resetRequests') =>
                \E a \in {"approve", "reject"} :
                    ResetRequestAction(r.target_user, r.id, a)]_vars

\* one reset request has been approved by its target; another is pending, with
\* an accepted transaction of its pair on file, and refuses its requester and
\* the third user
C19_Witness ==
    /\ \E r \in resetRequests : r.status = APPROVED
    /\ \E q \in resetRequests, t \in transactions :
            /\ q.status = PENDING /\ t.status = ACCEPTED
            /\ {t.initiator, t.friend} = {q.requester, q.target_user}
            /\ \A u \in Users \ {q.target_user} :
                    ResetRequestActionResponse(u, q.id, "approve").res = NotFound

\* C20: when send-request calls for the same unordered pair run concurrently,
\* the lookup and the insert of each being separate steps, then once no call
\* is in progress any more the pair has at most one Friendship row.
C20_RaceOneRowPerPair ==
    (\A w \in Workers : inflight[w] = Idle) =>
        \A f \in friendships, g \in friendships :
            {f.requester, f.receiver} = {g.requester, g.receiver} => f = g

\* a row of the table that is resolved keeps its status in the next state
StatusKept(table, table_next) ==
    \A r \in table, q \in table_next :
        (r.status # PENDING /\ q.id = r.id) => q.status = r.status

\* C21: when two act calls on the same pending row run concurrently, the read
\* of the row and the write of its status being separate steps, only one of
\* them writes: the status a row was resolved to is never overwritten by the
\* other call, in none of the four tables.
C21_ResolvedNeverOverwritten ==
    [][/\ StatusKept(friendships, friendships')
       /\ StatusKept(transactions, transactions')
       /\ StatusKept(deleteRequests, deleteRequests')
       /\ StatusKept(resetRequests, resetRequests')]_vars

\* C22: when the approval of a delete request interleaves with the approval
\* of a reset request of the same two users, the delete-request call does not
\* end in an uncaught exception.
C22_ApprovalsComplete ==
    \A w \in Workers :
        (/\ calls[w].view = "DeleteRequestAction"
         /\ calls[w].new_status = APPROVED
         /\ calls[w].pc = "crashed") =>
            ~\E r \in resetRequests :
                /\ r.status = APPROVED
                /\ {r.requester, r.target_user} =
                        {calls[w].instance.requester, calls[w].user}

\* C23: when delete-request calls or reset-request calls run concurrently,
\* their existence check and their insert being separate steps, then once no
\* call is in progress each transaction has at most one pending delete
\* request and each unordered pair at most one pending reset request.
C23_RaceOnePendingRequest ==
    (\A w \in Workers : Free(w)) =>
        /\ \A d \in deleteRequests, e \in deleteRequests :
                (/\ d.status = PENDING /\ e.status = PENDING
                 /\ d.transaction = e.transaction) => d = e
        /\ \A r \in resetRequests, q \in resetRequests :
                (/\ r.status = PENDING /\ q.status = PENDING
                 /\ {r.requester, r.target_user} =
                        {q.requester, q.target_user}) => r = q

\* C24: no state that other requests can observe is half-way through an
\* approval: no delete request is approved while the transaction it
\* references still exists, and no reset request has been saved as approved
\* while the accepted transactions of its pair, which the call is about to
\* delete, still exist.
C24_NoPartialState ==
    /\ \A d \in deleteRequests :
            d.status = APPROVED => d.transaction \notin Ids(transactions)
    /\ \A w \in Workers :
            (At(w, "ResetRequestAction", "count")
                \/ At(w, "ResetRequestAction", "delete")) =>
                transactions_to_delete(calls[w].instance.requester,
                                       calls[w].instance.target_user) = {}

\* C25: a FriendTransaction that has been deleted is permanently gone: an id
\* that was given out and is absent from the table is absent in every later
\* state, also when a transaction act call that read the row before the
\* deletion saves it afterwards.
C25_DeletedStaysDeleted ==
    [][\A pk \in 1..(nextTransaction - 1) :
            pk \notin Ids(transactions) => pk \notin Ids(transactions')]_vars

\* the outcomes the spec calls NotFound, Forbidden, InvalidOperation and
\* Conflict: a 404 NotFound or a 400 ValidationError
Failure(response) == response.res \in {NotFound, ValidationError}

\* C26: a call that returns a failure changes no row: in every reachable
\* state and for every input of the eight mutating operations, a call whose
\* response is NotFound or ValidationError is no step of the system.
C26_FailureChangesNothing ==
    /\ \A u \in Users, n \in Usernames :
        /\ Failure(FriendRequestSendResponse(u, n)) =>
                ~ENABLED FriendRequestSend(u, n)
        /\ Failure(RequestHistoryResetResponse(u, n)) =>
                ~ENABLED RequestHistoryReset(u, n)
        /\ \A amount \in Amounts :
                Failure(CreateTransactionResponse(u, n, amount)) =>
                    ~ENABLED CreateTransaction(u, n, amount)
    /\ \A u \in Users, t \in TransactionIds :
        Failure(RequestTransactionDeleteResponse(u, t)) =>
            ~ENABLED RequestTransactionDelete(u, t)
    /\ \A u \in Users, pk \in Pks, a \in ActionInputs :
        /\ Failure(FriendRequestActionResponse(u, pk, a)) =>
                ~ENABLED FriendRequestAction(u, pk, a)
        /\ Failure(TransactionActionResponse(u, pk, a)) =>
                ~ENABLED TransactionAction(u, pk, a)
        /\ Failure(DeleteRequestActionResponse(u, pk, a)) =>
                ~ENABLED DeleteRequestAction(u, pk, a)
        /\ Failure(ResetRequestActionResponse(u, pk, a)) =>
                ~ENABLED ResetRequestAction(u, pk, a)

\* rows of all four tables exist, and a send request, a create-transaction, a
\* delete request, a reset request and an act call are refused
C26_Witness ==
    \E f \in friendships, t \in transactions,
       d \in deleteRequests, r \in resetRequests :
        /\ FriendRequestSendResponse(f.requester, f.receiver).res = ValidationError
        /\ CreateTransactionResponse(t.initiator, "nobody", 5).res = NotFound
        /\ RequestTransactionDeleteResponse(d.requester, d.transaction).res
                = ValidationError
        /\ RequestHistoryResetResponse(r.requester, r.target_user).res
                = ValidationError
        /\ ResetRequestActionResponse(r.requester, r.id, "approve").res = NotFound

\* what holds of two users a and b whose Friendship f is rejected
C27_Blocked(f, a, b) ==
    /\ FriendRequestSendResponse(a, b).res = ValidationError
    /\ FriendRequestSendResponse(a, b).msg = "previous request was rejected"
    /\ ~ENABLED FriendRequestSend(a, b)
    /\ ~are_friends(a, b)
    /\ \A amount \in Amounts :
            /\ CreateTransactionResponse(a, b, amount).res = ValidationError
            /\ ~ENABLED CreateTransaction(a, b, amount)
    /\ RequestHistoryResetResponse(a, b).res = ValidationError
    /\ ~ENABLED RequestHistoryReset(a, b)
    /\ ~\E t \in transactions : t.initiator = a /\ t.friend = b
    /\ ~\E r \in resetRequests : r.requester = a /\ r.target_user = b

\* C27: once the Friendship between two users is rejected it stays rejected;
\* from then on a send request between them is refused in both directions
\* ("previous request was rejected"), they are never friends, create
\* transaction and reset request between them are refused, and no
\* FriendTransaction or HistoryResetRequest between them exists.
C27_RejectedIsFinal ==
    /\ [](\A f \in friendships :
            f.status = REJECTED =>
                /\ C27_Blocked(f, f.requester, f.receiver)
                /\ C27_Blocked(f, f.receiver, f.requester))
    /\ [][\A f \in friendships :
            f.status = REJECTED => f \in friendships']_vars

\* a pair is rejected while another pair is friends and has a transaction
C27_Witness ==
    \E f \in friendships, g \in friendships, t \in transactions :
        /\ f.status = REJECTED /\ g.status = ACCEPTED
        /\ {t.initiator, t.friend} = {g.requester, g.receiver}
        /\ FriendRequestSendResponse(f.receiver, f.requester).msg =
                "previous request was rejected"
        /\ CreateTransactionResponse(f.requester, f.receiver, 5).res =
                ValidationError

\* C28: the friend list of u holds exactly the users v joined to u by an
\* accepted Friendship in either direction, never u; v is in u's list exactly
\* when u is in v's; and it agrees with the friendship gate of
\* create-transaction and of the reset request.
C28_FriendList ==
    \A u \in Users :
        /\ FriendList(u) = {v \in Users \ {u} : AcceptedBetween(u, v)}
        /\ u \notin FriendList(u)
        /\ \A v \in Users \ {u} :
            /\ v \in FriendList(u) <=> u \in FriendList(v)
            /\ v \in FriendList(u) <=> are_friends(u, v)
            /\ v \in FriendList(u) <=>
                    CreateTransactionResponse(u, v, 5).res = OK
            /\ v \in FriendList(u) <=>
                    RequestHistoryResetResponse(u, v).msg # "not friends"

\* a user has two friends, one who sent and one who received the request, and
\* those two are not friends of each other
C28_Witness ==
    \E f \in friendships, g \in friendships :
        /\ f.status = ACCEPTED /\ g.status = ACCEPTED
        /\ f.requester = g.receiver
        /\ FriendList(f.requester) = {f.receiver, g.requester}
        /\ f.receiver # g.requester
        /\ g.requester \notin FriendList(f.receiver)

\* the rows a returned list holds
Listed(list) == {list[i] : i \in 1..Len(list)}

\* C29: the history of u with a named friend holds exactly the existing
\* FriendTransactions whose two parties are u and that friend, in either
\* direction and of every status, each once, none involving a third user, and
\* it is the same whichever of the two asks.
C29_History ==
    \A u \in Users : \A v \in Users \ {u} :
        LET history == TransactionHistory(u, v)
        IN  /\ TransactionHistoryResponse(u, v).res = OK
            /\ Listed(history) =
                    {t \in transactions : {t.initiator, t.friend} = {u, v}}
            /\ Len(history) = Cardinality(Listed(history))
            /\ history = TransactionHistory(v, u)

\* a pending, an accepted and a rejected transaction of one pair, created from
\* both sides, are all in its history
C29_Witness ==
    \E p \in transactions, a \in transactions, r \in transactions :
        /\ p.status = PENDING /\ a.status = ACCEPTED /\ r.status = REJECTED
        /\ {a.initiator, a.friend} = {p.initiator, p.friend}
        /\ {r.initiator, r.friend} = {p.initiator, p.friend}
        /\ a.initiator # p.initiator
        /\ Len(TransactionHistory(p.friend, p.initiator)) = 3

\* the act inputs the serializer of each view accepts
FriendshipActions == {"accept", "reject"}
RequestActions == {"approve", "reject"}

\* C30: for each of the four entities the pending list of user u holds exactly
\* the rows on which an act call by u succeeds (with either valid action); on
\* a row that is not in u's list every act call by u gets NotFound.
C30_ListIsActable ==
    \A u \in Users, pk \in Pks :
        /\ \A a \in FriendshipActions :
            /\ pk \in Ids(PendingFriendRequests(u))
                    <=> FriendRequestActionResponse(u, pk, a).res = OK
            /\ pk \in Ids(PendingTransactions(u))
                    <=> TransactionActionResponse(u, pk, a).res = OK
        /\ \A a \in RequestActions :
            /\ pk \in Ids(PendingDeleteRequests(u))
                    <=> DeleteRequestActionResponse(u, pk, a).res = OK
            /\ pk \in Ids(PendingResetRequests(u))
                    <=> ResetRequestActionResponse(u, pk, a).res = OK
        /\ \A a \in ActionInputs :
            /\ pk \notin Ids(PendingFriendRequests(u)) =>
                /\ FriendRequestActionResponse(u, pk, a).res = NotFound
                /\ ~ENABLED FriendRequestAction(u, pk, a)
            /\ pk \notin Ids(PendingTransactions(u)) =>
                /\ TransactionActionResponse(u, pk, a).res = NotFound
                /\ ~ENABLED TransactionAction(u, pk, a)
            /\ pk \notin Ids(PendingDeleteRequests(u)) =>
                /\ DeleteRequestActionResponse(u, pk, a).res = NotFound
                /\ ~ENABLED DeleteRequestAction(u, pk, a)
            /\ pk \notin Ids(PendingResetRequests(u)) =>
                /\ ResetRequestActionResponse(u, pk, a).res = NotFound
                /\ ~ENABLED ResetRequestAction(u, pk, a)

\* a transaction, a delete request and a reset request are pending at once:
\* each is in the list of the one user who can act on it and in nobody
\* else's
C30_Witness ==
    \E t \in transactions, d \in deleteRequests, r \in resetRequests :
        /\ PendingTransactions(t.friend) = {t}
        /\ PendingTransactions(t.initiator) = {}
        /\ d.transaction = t.id
        /\ \E u \in Users : /\ PendingDeleteRequests(u) = {d}
                            /\ PendingDeleteRequests(d.requester) = {}
        /\ PendingResetRequests(r.target_user) = {r}
        /\ PendingResetRequests(r.requester) = {}

\* the spec's statement of C31: create-transaction with a username that
\* resolves to no user gets NotFound for every amount, amount 0 included.
C31_UnknownFriendAlwaysNotFound ==
    \A u \in Users, amount \in Amounts :
        CreateTransactionResponse(u, "nobody", amount).res = NotFound

\* C31: create-transaction with a username that resolves to no user gets
\* NotFound for every non-zero amount; with amount 0 it gets the zero-amount
\* ValidationError, because the amount is checked before the username is
\* resolved. In both cases no transaction is created.
C31_UnknownFriendRefused ==
    \A u \in Users, amount \in Amounts :
        LET r == CreateTransactionResponse(u, "nobody", amount)
        IN  /\ amount # 0 => r.res = NotFound
            /\ amount = 0 =>
                    r.res = ValidationError /\ r.msg = "amount cannot be zero"
            /\ ~ENABLED CreateTransaction(u, "nobody", amount)

\* a user who can create a transaction with a friend is refused one with the
\* unknown username, with NotFound for amount 5 and ValidationError for 0
C31_Witness ==
    \E f \in friendships :
        /\ CreateTransactionResponse(f.requester, f.receiver, 5).res = OK
        /\ CreateTransactionResponse(f.requester, "nobody", 5).res = NotFound
        /\ CreateTransactionResponse(f.requester, "nobody", 0).res = ValidationError

\* C32: when a reset approval interleaves with a transaction act call that
\* accepts a pending transaction of the same pair, the count the reset
\* approval reports equals the number of transactions its delete removes.
C32_CountIsDeleted ==
    [][\A w \in Workers :
            ResetRequestActionDelete(w) =>
                calls[w].count =
                    Cardinality(transactions) - Cardinality(transactions')]_vars

\* the users whose act call on row pk succeeds with every action of the set
Actors(Response(_, _, _), pk, actions) ==
    {u \in Users : \A a \in actions : Response(u, pk, a).res = OK}

PendingIn(table, pk) == \E r \in table : r.id = pk /\ r.status = PENDING

\* C33: no pending row is stuck: every pending Friendship, FriendTransaction,
\* delete request and reset request has exactly one user whose act call on it
\* succeeds, and when act calls that stay possible are eventually made, every
\* pending row is eventually resolved or removed (at every time the row of an
\* id is later not pending, which is pending ~> not pending).
C33_NoPendingStuck ==
    /\ [](\A pk \in Pks :
            /\ PendingIn(friendships, pk) =>
                Cardinality(Actors(FriendRequestActionResponse, pk,
                                   FriendshipActions)) = 1
            /\ PendingIn(transactions, pk) =>
                Cardinality(Actors(TransactionActionResponse, pk,
                                   FriendshipActions)) = 1
            /\ PendingIn(deleteRequests, pk) =>
                Cardinality(Actors(DeleteRequestActionResponse, pk,
                                   RequestActions)) = 1
            /\ PendingIn(resetRequests, pk) =>
                Cardinality(Actors(ResetRequestActionResponse, pk,
                                   RequestActions)) = 1)
    /\ \A pk \in Pks :
        /\ []<>~PendingIn(friendships, pk)
        /\ []<>~PendingIn(transactions, pk)
        /\ []<>~PendingIn(deleteRequests, pk)
        /\ []<>~PendingIn(resetRequests, pk)

\* a friend request, a transaction and a delete request are pending at the
\* same time, and the delete request was filed by the transaction's initiator
C33_Witness ==
    \E f \in friendships, t \in transactions, d \in deleteRequests :
        /\ f.status = PENDING /\ t.status = PENDING /\ d.status = PENDING
        /\ d.transaction = t.id /\ d.requester = t.initiator
        /\ Actors(DeleteRequestActionResponse, d.id, RequestActions) = {t.friend}

\* the ids of the transactions a step deletes
Gone == Ids(transactions) \ Ids(transactions')

GatePassed(a, b) ==
    /\ CreateTransactionResponse(a, b, 5).msg # "not friends"
    /\ RequestHistoryResetResponse(a, b).msg # "not friends"

\* C35: friendship is monotone: no step removes a Friendship row or changes an
\* accepted one, so an accepted Friendship is in every later state, and a pair
\* that passes the friendship gate of create-transaction and of the reset
\* request passes it after every step.
C35_FriendshipMonotone ==
    [][/\ \A f \in friendships :
            /\ f.id \in Ids(friendships')
            /\ f.status = ACCEPTED => f \in friendships'
       /\ \A a \in Users : \A b \in Users \ {a} :
            /\ are_friends(a, b) => are_friends(a, b)'
            /\ GatePassed(a, b) => GatePassed(a, b)']_vars

\* an accepted friendship is still there after a later friend request was
\* rejected, and its pair has passed both gates: a transaction and a reset
\* request exist between them
C35_Witness ==
    \E f \in friendships, g \in friendships :
        /\ f.status = ACCEPTED /\ g.status = REJECTED /\ g.id > f.id
        /\ \E t \in transactions : {t.initiator, t.friend} = {f.requester, f.receiver}
        /\ \E r \in resetRequests : {r.requester, r.target_user} = {f.requester, f.receiver}
        /\ GatePassed(f.requester, f.receiver)

\* the ids of transactions that were created and are deleted
DeletedTransactions == (1 .. (nextTransaction - 1)) \ Ids(transactions)

\* C36: a party can file the first delete request on a transaction whatever
\* the transaction's status; approving a delete request on a pending
\* transaction removes the transaction; an act call on a deleted transaction's
\* id returns NotFound for every user, and the id never comes back, so the
\* transaction is never accepted.
C36_PendingTransactionDeletable ==
    /\ [](\A t \in transactions : \A u \in {t.initiator, t.friend} :
            {d \in deleteRequests : d.transaction = t.id} = {} =>
                RequestTransactionDeleteResponse(u, t.id).res = OK)
    /\ [](\A id \in DeletedTransactions : \A u \in Users, a \in ActionInputs :
            /\ TransactionActionResponse(u, id, a).res = NotFound
            /\ ~ENABLED TransactionAction(u, id, a))
    /\ [][/\ \A d \in deleteRequests : \A t \in transactions :
                (/\ d.transaction = t.id /\ t.status = PENDING
                 /\ \E u \in Users : DeleteRequestAction(u, d.id, "approve"))
                    => /\ t.id \notin Ids(transactions')
                       /\ transactions' = transactions \ {t}
          /\ \A id \in DeletedTransactions : id \notin Ids(transactions')]_vars

\* a delete request filed by the initiator is pending on a transaction that is
\* itself still pending, no friend request is pending, and the friend can
\* either accept the transaction or approve its deletion
C36_Witness ==
    \E t \in transactions, d \in deleteRequests :
        /\ t.status = PENDING /\ d.status = PENDING
        /\ d.transaction = t.id /\ d.requester = t.initiator
        /\ \A f \in friendships : f.status # PENDING
        /\ TransactionActionResponse(t.friend, t.id, "accept").res = OK
        /\ ENABLED DeleteRequestAction(t.friend, d.id, "approve")

====
